---- MODULE Spec2Model ----
(***************************************************************************)
(* Model of gradunwarp/core/utils.py: the Memoize wrapper and its two      *)
(* instances (factorial, odd_factorial), the associated Legendre           *)
(* evaluator, the N-d meshgrid/ndgrid and transform_coordinates.           *)
(*                                                                         *)
(* The module is Python 2 code (xrange); floats are modelled as exact      *)
(* rationals <<num, den>> (den > 0, lowest terms), and a legendre value is *)
(* q * sqrt(rad) with rad a square-free integer, so that sqrt(1 - x**2) is  *)
(* exact.  numpy arrays are records [shape, data] with data a function     *)
(* from 0-based index tuples to integers.                                  *)
(***************************************************************************)
EXTENDS Integers, Sequences, FiniteSets, TLC

VARIABLES memo_factorial,   \* factorial.memo      (Memoize(math.factorial))
          memo_odd,         \* odd_factorial.memo  (Memoize(odd_factorial_fn))
          evals_factorial,  \* how often math.factorial ran, per argument tuple
          evals_odd,        \* how often odd_factorial_fn ran, per argument tuple
          call,             \* the last call made by the caller
          ret,              \* what that call returned or raised
          coords            \* the caller's CoordsVector

vars == <<memo_factorial, memo_odd, evals_factorial, evals_odd, call, ret, coords>>

\* ---------------------------------------------------------------- bounds
MaxFactArg == 2     \* factorial is called with 0..MaxFactArg
MaxOddArg == 5      \* odd_factorial is called with -1..MaxOddArg
MaxNu == 10         \* legendre degrees -1..MaxNu
MaxMu == 3          \* legendre orders -1..MaxMu
MaxEvals == 2       \* cap on the evaluation counters
MaxN == 3           \* meshgrid is called with 0..MaxN vectors

None == [kind |-> "none"]
Value(v) == [kind |-> "value", val |-> v]
Raise(e, m) == [kind |-> "raise", exc |-> e, msg |-> m]

\* ------------------------------------------------------ exact arithmetic
Abs(n) == IF n < 0 THEN -n ELSE n

RECURSIVE GCD(_, _)
GCD(a, b) == IF b = 0 THEN a ELSE GCD(b, a % b)

Norm(n, d) ==
    LET g == GCD(Abs(n), d) IN
    IF n = 0 THEN <<0, 1>> ELSE <<n \div g, d \div g>>

RInt(n) == <<n, 1>>
RMul(p, q) == Norm(p[1] * q[1], p[2] * q[2])
RSub(p, q) ==
    LET g == GCD(p[2], q[2])
        l == (p[2] \div g) * q[2]
    IN Norm(p[1] * (l \div p[2]) - q[1] * (l \div q[2]), l)
RDivInt(p, k) == IF k > 0 THEN Norm(p[1], p[2] * k) ELSE Norm(-p[1], p[2] * (-k))
RAbsGtOne(p) == Abs(p[1]) > p[2]

RECURSIVE RPow(_, _)
RPow(p, k) == IF k = 0 THEN RInt(1) ELSE RMul(p, RPow(p, k - 1))

\* largest s with s*s dividing n (n >= 1)
SquarePart(n) ==
    CHOOSE s \in 1..n : n % (s * s) = 0 /\ \A t \in (s + 1)..n : n % (t * t) # 0

\* a real q * sqrt(rad)
Real(q, rad) == IF q[1] = 0 THEN [q |-> q, rad |-> 1] ELSE [q |-> q, rad |-> rad]
RealMulQ(r, v) == Real(RMul(r, v.q), v.rad)
RealSub(v, w) == Real(RSub(v.q, w.q), IF v.q[1] = 0 THEN w.rad ELSE v.rad)
RealDivInt(v, k) == Real(RDivInt(v.q, k), v.rad)

\* math.sqrt(1 - x ** 2) for a rational x = a/b with abs(x) <= 1:
\* sqrt(b*b - a*a) / b
SqrtOneMinusSq(x) ==
    LET n == x[2] * x[2] - x[1] * x[1] IN
    IF n = 0 THEN Real(RInt(0), 1)
    ELSE LET s == SquarePart(n) IN Real(Norm(s, x[2]), n \div (s * s))

\* z ** mu for z = q * sqrt(rad), mu >= 0
RealPow(z, mu) ==
    Real(RMul(RPow(z.q, mu), RInt(RPow(RInt(z.rad), mu \div 2)[1])),
         IF mu % 2 = 1 THEN z.rad ELSE 1)

\* ---------------------------------------------------------------- Memoize
\* math.factorial on a tuple of one non-negative integer
RECURSIVE FactorialOf(_)
FactorialOf(n) == IF n <= 1 THEN 1 ELSE n * FactorialOf(n - 1)

RECURSIVE odd_factorial_loop(_, _)
odd_factorial_loop(k, f) ==
    IF k >= 3 THEN odd_factorial_loop(k - 2, f * (k - 2)) ELSE f

FactorialArgs == {<<n>> : n \in 0..MaxFactArg}
OddArgs == {<<k>> : k \in (-1)..MaxOddArg}
\* the argument tuples legendre may pass to odd_factorial
LegendreOddArgs == {<<2 * mu - 1>> : mu \in (-1)..MaxMu}

\* the wrapped functions, as the values Memoize keeps in self.f
math_factorial == [args \in FactorialArgs |-> FactorialOf(args[1])]
odd_factorial_fn ==
    [args \in OddArgs \cup LegendreOddArgs |-> odd_factorial_loop(args[1], args[1])]

\* Memoize.__call__ that forgets to store what it computed
MemoizeCall_NoStore(f, memo, args) ==
    IF ~(args \in DOMAIN memo)
    THEN [memo |-> memo, val |-> f[args], ran |-> TRUE]
    ELSE [memo |-> memo, val |-> memo[args], ran |-> FALSE]

\* Memoize.__call__ that tests whether the memo is empty, not whether it
\* holds args
MemoizeCall_AnyHit(f, memo, args) ==
    IF DOMAIN memo = {}
    THEN LET m == (args :> f[args]) @@ memo IN
         [memo |-> m, val |-> m[args], ran |-> TRUE]
    ELSE LET hit == CHOOSE a \in DOMAIN memo : TRUE IN
         [memo |-> memo, val |-> memo[hit], ran |-> FALSE]

\* Memoize.__call__ that replaces the memo by the new entry alone
MemoizeCall_Evict(f, memo, args) ==
    IF ~(args \in DOMAIN memo)
    THEN LET m == (args :> f[args]) IN
         [memo |-> m, val |-> m[args], ran |-> TRUE]
    ELSE [memo |-> memo, val |-> memo[args], ran |-> FALSE]

\* Memoize.__call__: the new memo, the returned value and whether f ran
MemoizeCall(f, memo, args) ==
    IF ~(args \in DOMAIN memo)
    THEN LET m == (args :> f[args]) @@ memo IN
         [memo |-> m, val |-> m[args], ran |-> TRUE]
    ELSE [memo |-> memo, val |-> memo[args], ran |-> FALSE]

Bump(evals, args) == [evals EXCEPT ![args] = @ + 1]

CallFactorial(args) ==
    /\ evals_factorial[args] < MaxEvals
    /\ LET r == MemoizeCall(math_factorial, memo_factorial, args) IN
       /\ memo_factorial' = r.memo
       /\ evals_factorial' = IF r.ran THEN Bump(evals_factorial, args) ELSE evals_factorial
       /\ call' = [fn |-> "factorial", args |-> args, cached |-> args \in DOMAIN memo_factorial]
       /\ ret' = Value(r.val)
    /\ UNCHANGED <<memo_odd, evals_odd, coords>>

CallOddFactorial(args) ==
    /\ evals_odd[args] < MaxEvals
    /\ LET r == MemoizeCall(odd_factorial_fn, memo_odd, args) IN
       /\ memo_odd' = r.memo
       /\ evals_odd' = IF r.ran THEN Bump(evals_odd, args) ELSE evals_odd
       /\ call' = [fn |-> "odd_factorial", args |-> args, cached |-> args \in DOMAIN memo_odd]
       /\ ret' = Value(r.val)
    /\ UNCHANGED <<memo_factorial, evals_factorial, coords>>

\* --------------------------------------------------------------- legendre
XValues == {<<-3, 2>>, <<-1, 1>>, <<-1, 2>>, <<0, 1>>, <<1, 2>>, <<1, 1>>, <<3, 2>>}

\* the for loop of legendre with (n + mu) for (n + mu - 1)
RECURSIVE legendre_loop_coeff(_, _, _, _, _, _)
legendre_loop_coeff(n, nu, mu, x, p_nu, p_nu_prev) ==
    IF n > nu THEN p_nu
    ELSE LET result == RealDivInt(RealSub(RealMulQ(RMul(x, RInt(2 * n - 1)), p_nu),
                                          RealMulQ(RInt(n + mu), p_nu_prev)),
                                  n - mu)
         IN IF result.rad >= 1 THEN legendre_loop_coeff(n + 1, nu, mu, x, result, p_nu)
            ELSE result

\* the for loop of legendre: n runs over xrange(mu + 2, nu + 1); each
\* iteration's result is computed (the rad test) before the next one starts
RECURSIVE legendre_loop(_, _, _, _, _, _)
legendre_loop(n, nu, mu, x, p_nu, p_nu_prev) ==
    IF n > nu THEN p_nu
    ELSE LET result == RealDivInt(RealSub(RealMulQ(RMul(x, RInt(2 * n - 1)), p_nu),
                                          RealMulQ(RInt(n + mu - 1), p_nu_prev)),
                                  n - mu)
         IN IF result.rad >= 1 THEN legendre_loop(n + 1, nu, mu, x, result, p_nu)
            ELSE result

\* the order check with mu >= nu for mu > nu
order_invalid_strict(nu, mu) == mu < 0 \/ mu >= nu

\* the two argument checks of legendre
order_invalid(nu, mu) == mu < 0 \/ mu > nu
argument_invalid(x) == RAbsGtOne(x)

\* legendre(nu, mu, x) run against the memo of odd_factorial
legendre(nu, mu, x, memo) ==
    IF order_invalid(nu, mu)
    THEN [ret |-> Raise("ValueError", "require 0 <= mu <= nu"), memo |-> memo, ran |-> FALSE]
    ELSE IF argument_invalid(x)
    THEN [ret |-> Raise("ValueError", "require -1 <= x <= 1"), memo |-> memo, ran |-> FALSE]
    ELSE
      LET of == IF mu = 0 THEN [memo |-> memo, val |-> 1, ran |-> FALSE]
                ELSE MemoizeCall(odd_factorial_fn, memo, <<2 * mu - 1>>)
          s == IF mu % 2 = 1 THEN -1 ELSE 1
          seed == IF mu = 0 THEN Real(RInt(1), 1)
                  ELSE RealMulQ(RInt(s * of.val), RealPow(SqrtOneMinusSq(x), mu))
          next == RealMulQ(RMul(x, RInt(2 * mu + 1)), seed)
          out == IF mu = nu THEN seed
                 ELSE IF nu = mu + 1 THEN next
                 ELSE legendre_loop(mu + 2, nu, mu, x, next, seed)
      IN [ret |-> Value(out), memo |-> of.memo, ran |-> of.ran]

CallLegendre(nu, mu, x) ==
    /\ call.fn = "none"
    /\ evals_odd[<<2 * mu - 1>>] < MaxEvals
    /\ LET r == legendre(nu, mu, x, memo_odd) IN
       /\ memo_odd' = r.memo
       /\ evals_odd' = IF r.ran THEN Bump(evals_odd, <<2 * mu - 1>>) ELSE evals_odd
       /\ call' = [fn |-> "legendre", nu |-> nu, mu |-> mu, x |-> x]
       /\ ret' = r.ret
    /\ UNCHANGED <<memo_factorial, evals_factorial, coords>>

\* ------------------------------------------------------------ numpy arrays
RECURSIVE Product(_)
Product(shape) == IF shape = <<>> THEN 1 ELSE Head(shape) * Product(Tail(shape))

RECURSIVE MaxOf(_)
MaxOf(shape) ==
    IF shape = <<>> THEN 0
    ELSE LET m == MaxOf(Tail(shape)) IN IF Head(shape) > m THEN Head(shape) ELSE m

\* the index tuples (0-based) of an array of the given shape
IndexSet(shape) ==
    {idx \in [DOMAIN shape -> 0..MaxOf(shape)] : \A d \in DOMAIN shape : idx[d] < shape[d]}

Array(shape, data) == [shape |-> shape, data |-> data]
Size(a) == Product(a.shape)

\* np.asarray of a Python list of integers
AsArray(v) == Array(<<Len(v)>>, [idx \in IndexSet(<<Len(v)>>) |-> v[idx[1] + 1]])

\* position of idx in C (row-major) order
RECURSIVE FlatIndex(_, _, _)
FlatIndex(shape, idx, d) ==
    IF d = 0 THEN 0 ELSE FlatIndex(shape, idx, d - 1) * shape[d] + idx[d]

Unflat(shape, k) ==
    [d \in DOMAIN shape |->
        (k \div Product(SubSeq(shape, d + 1, Len(shape)))) % shape[d]]

\* ndarray.reshape / assignment to ndarray.shape; one dimension may be -1
Reshape(a, shp) ==
    LET known == Product([d \in DOMAIN shp |-> IF shp[d] = -1 THEN 1 ELSE shp[d]])
        newshape == [d \in DOMAIN shp |-> IF shp[d] = -1 THEN Size(a) \div known ELSE shp[d]]
    IN Array(newshape,
             [idx \in IndexSet(newshape) |->
                 a.data[Unflat(a.shape, FlatIndex(newshape, idx, Len(newshape)))]])

\* numpy broadcasting of two shapes of the same rank
BroadcastShape(s, t) == [d \in DOMAIN s |-> IF s[d] = 1 THEN t[d] ELSE s[d]]
Broadcastable(s, t) == \A d \in DOMAIN s : s[d] = t[d] \/ s[d] = 1 \/ t[d] = 1

\* the element of a that broadcasting puts at position idx
BroadcastAt(a, idx) == a.data[[d \in DOMAIN idx |-> IF a.shape[d] = 1 THEN 0 ELSE idx[d]]]

BroadcastTo(a, shape) == Array(shape, [idx \in IndexSet(shape) |-> BroadcastAt(a, idx)])

\* np.ones(shape, dtype=int)
Ones(shape) == Array(shape, [idx \in IndexSet(shape) |-> 1])

\* a * b with broadcasting
Multiply(a, b) ==
    LET shape == BroadcastShape(a.shape, b.shape) IN
    Array(shape, [idx \in IndexSet(shape) |-> BroadcastAt(a, idx) * BroadcastAt(b, idx)])

RECURSIVE CommonShape(_)
CommonShape(arrays) ==
    IF Len(arrays) = 1 THEN arrays[1].shape
    ELSE BroadcastShape(arrays[1].shape, CommonShape(Tail(arrays)))

\* whether numpy can broadcast the arrays together
AllBroadcastable(arrays) ==
    \A i \in DOMAIN arrays : Broadcastable(arrays[i].shape, CommonShape(arrays))

\* np.broadcast_arrays(*arrays)
BroadcastArrays(arrays) ==
    IF arrays = <<>> THEN <<>>
    ELSE [i \in DOMAIN arrays |-> BroadcastTo(arrays[i], CommonShape(arrays))]

\* np.atleast_1d(*xi): the array itself for one argument, a list otherwise
atleast_1d(xi) ==
    LET res == [i \in DOMAIN xi |-> AsArray(xi[i])] IN
    IF Len(res) = 1 THEN [islist |-> FALSE, array |-> res[1]]
    ELSE [islist |-> TRUE, list |-> res]

\* --------------------------------------------------------------- meshgrid
\* kwargs.get(key, default)
Get(kwargs, key, default) == IF key \in DOMAIN kwargs THEN kwargs[key] ELSE default

\* the reshape target with the free dimension always first
AxisShape_First(ndim, i) == [d \in 1..ndim |-> IF d = 1 THEN -1 ELSE 1]

\* s0[:i] + (-1,) + s0[i + 1::] for s0 = (1,) * ndim (i is 1-based here)
AxisShape(ndim, i) == [d \in 1..ndim |-> IF d = i THEN -1 ELSE 1]

\* (1, -1) + (1,) * (ndim - 2) and (-1, 1) + (1,) * (ndim - 2)
RowShape(ndim) == <<1, -1>> \o [d \in 1..(ndim - 2) |-> 1]
ColShape(ndim) == <<-1, 1>> \o [d \in 1..(ndim - 2) |-> 1]

\* the shape list left as it is
SwapFirstTwo_None(shape) == shape

\* shape[0], shape[1] = shape[1], shape[0]
SwapFirstTwo(shape) == [shape EXCEPT ![1] = shape[2], ![2] = shape[1]]

ArrayResult(a, copy) == [kind |-> "array", array |-> a, view |-> ~copy]
ListResult(l, copy) == [kind |-> "list", arrays |-> l, view |-> ~copy]

meshgrid(xi, kwargs) ==
    LET copy == Get(kwargs, "copy", TRUE)
        args == atleast_1d(xi)
    IN
    IF ~args.islist
    THEN IF Size(args.array) > 0
         THEN ArrayResult(args.array, copy)
         ELSE Raise("TypeError", "meshgrid() take 1 or more arguments (0 given)")
    ELSE
    LET sparse == Get(kwargs, "sparse", FALSE)
        indexing == Get(kwargs, "indexing", "xy")
        ndim == Len(args.list)
        output0 == [i \in 1..ndim |-> Reshape(args.list[i], AxisShape(ndim, i))]
        shape0 == [i \in 1..ndim |-> Size(output0[i])]
    IN
    IF indexing = "xy" /\ ndim = 0
    THEN Raise("IndexError", "list index out of range")
    ELSE
    LET output == IF indexing = "xy"
                  THEN [output0 EXCEPT ![1] = Reshape(@, RowShape(ndim)),
                                       ![2] = Reshape(@, ColShape(ndim))]
                  ELSE output0
        shape == IF indexing = "xy" THEN SwapFirstTwo(shape0) ELSE shape0
    IN
    IF sparse
    THEN ListResult(output, copy)
    ELSE IF copy
         THEN LET mult_fact == Ones(shape) IN
              IF \A i \in 1..ndim : Broadcastable(output[i].shape, mult_fact.shape)
              THEN ListResult([i \in 1..ndim |-> Multiply(output[i], mult_fact)], copy)
              ELSE Raise("ValueError", "operands could not be broadcast together")
         ELSE IF AllBroadcastable(output)
              THEN ListResult(BroadcastArrays(output), copy)
              ELSE Raise("ValueError", "shape mismatch")

ndgrid(args, kwargs) ==
    meshgrid(args, ("indexing" :> "ij") @@ kwargs)

\* the coordinate vectors and keyword arguments the caller uses
VectorSet == {<<>>, <<7>>, <<0, 1>>, <<0, 1, 2>>}
KwargValues(key) == IF key = "indexing" THEN {"xy", "ij"} ELSE BOOLEAN
KwargKeys == {"indexing", "sparse", "copy"}

\* the caller collects the arguments of the next grid call
AddVector(v) ==
    /\ call.fn \in {"none", "pending"}
    /\ LET xi == IF call.fn = "pending" THEN call.xi ELSE <<>>
           kw == IF call.fn = "pending" THEN call.kwargs ELSE <<>>
       IN /\ Len(xi) < MaxN
          /\ call' = [fn |-> "pending", xi |-> Append(xi, v), kwargs |-> kw]
    /\ ret' = None
    /\ UNCHANGED <<memo_factorial, memo_odd, evals_factorial, evals_odd, coords>>

AddKwarg(key, val) ==
    /\ call.fn \in {"none", "pending"}
    /\ LET xi == IF call.fn = "pending" THEN call.xi ELSE <<>>
           kw == IF call.fn = "pending" THEN call.kwargs ELSE <<>>
       IN /\ key \notin DOMAIN kw
          /\ call' = [fn |-> "pending", xi |-> xi, kwargs |-> (key :> val) @@ kw]
    /\ ret' = None
    /\ UNCHANGED <<memo_factorial, memo_odd, evals_factorial, evals_odd, coords>>

CallMeshgrid ==
    /\ call.fn \in {"none", "pending"}
    /\ LET xi == IF call.fn = "pending" THEN call.xi ELSE <<>>
           kw == IF call.fn = "pending" THEN call.kwargs ELSE <<>>
       IN /\ call' = [fn |-> "meshgrid", xi |-> xi, kwargs |-> kw]
          /\ ret' = meshgrid(xi, kw)
    /\ UNCHANGED <<memo_factorial, memo_odd, evals_factorial, evals_odd, coords>>

CallNdgrid ==
    /\ call.fn \in {"none", "pending"}
    /\ LET xi == IF call.fn = "pending" THEN call.xi ELSE <<>>
           kw == IF call.fn = "pending" THEN call.kwargs ELSE <<>>
       IN /\ call' = [fn |-> "ndgrid", xi |-> xi, kwargs |-> kw]
          /\ ret' = ndgrid(xi, kw)
    /\ UNCHANGED <<memo_factorial, memo_odd, evals_factorial, evals_odd, coords>>

\* the caller drops the result and starts over
Discard ==
    /\ call.fn \in {"meshgrid", "ndgrid", "legendre"}
    /\ call' = [fn |-> "none"]
    /\ ret' = None
    /\ UNCHANGED <<memo_factorial, memo_odd, evals_factorial, evals_odd, coords>>

\* -------------------------------------------------- transform_coordinates
\* a * c, a + c for a scalar c; a + b element-wise (with broadcasting)
Scale(a, c) == Array(a.shape, [idx \in IndexSet(a.shape) |-> a.data[idx] * c])
Shift(a, c) == Array(a.shape, [idx \in IndexSet(a.shape) |-> a.data[idx] + c])
Add(a, b) ==
    LET shape == BroadcastShape(a.shape, b.shape) IN
    Array(shape, [idx \in IndexSet(shape) |-> BroadcastAt(a, idx) + BroadcastAt(b, idx)])

CoordsVector(x, y, z) == [x |-> x, y |-> y, z |-> z]

\* transform_coordinates taking the translation of B3 from the last row
transform_coordinates_lastrow(A, M) ==
    LET A1 == A.x
        A2 == A.y
        A3 == A.z
        B1 == Shift(Add(Add(Scale(A1, M[<<0, 0>>]), Scale(A2, M[<<0, 1>>])),
                        Scale(A3, M[<<0, 2>>])), M[<<0, 3>>])
        B2 == Shift(Add(Add(Scale(A1, M[<<1, 0>>]), Scale(A2, M[<<1, 1>>])),
                        Scale(A3, M[<<1, 2>>])), M[<<1, 3>>])
        B3 == Shift(Add(Add(Scale(A1, M[<<2, 0>>]), Scale(A2, M[<<2, 1>>])),
                        Scale(A3, M[<<2, 2>>])), M[<<3, 3>>])
    IN [x |-> B1, y |-> B2, z |-> B3]

\* M is indexed M[<<row, column>>] with rows and columns 0..3
transform_coordinates(A, M) ==
    LET A1 == A.x
        A2 == A.y
        A3 == A.z
        B1 == Shift(Add(Add(Scale(A1, M[<<0, 0>>]), Scale(A2, M[<<0, 1>>])),
                        Scale(A3, M[<<0, 2>>])), M[<<0, 3>>])
        B2 == Shift(Add(Add(Scale(A1, M[<<1, 0>>]), Scale(A2, M[<<1, 1>>])),
                        Scale(A3, M[<<1, 2>>])), M[<<1, 3>>])
        B3 == Shift(Add(Add(Scale(A1, M[<<2, 0>>]), Scale(A2, M[<<2, 1>>])),
                        Scale(A3, M[<<2, 2>>])), M[<<2, 3>>])
    IN CoordsVector(B1, B2, B3)

\* the coordinate arrays and matrices the caller uses
Scalar(v) == Array(<<>>, [idx \in IndexSet(<<>>) |-> v])
CoordArrays == {Scalar(-1), Scalar(0), Scalar(2), AsArray(<<1, 2>>), AsArray(<<0, -3>>)}
CoordsSet == {CoordsVector(x, y, z) : x, y, z \in {a \in CoordArrays : a.shape = <<>>}}
             \cup {CoordsVector(x, y, z) : x, y, z \in {a \in CoordArrays : a.shape # <<>>}}

MatrixIndex == (0..3) \X (0..3)
Identity == [ij \in MatrixIndex |-> IF ij[1] = ij[2] THEN 1 ELSE 0]
Generic == [ij \in MatrixIndex |-> (ij[1] + 2) * (ij[2] + 1) - 4]
Matrices == {Identity, Generic}
            \cup {[B EXCEPT ![ij] = v] : B \in {Identity, Generic}, ij \in MatrixIndex, v \in {-1, 0}}

SetCoords(A) ==
    /\ coords' = A
    /\ call' = [fn |-> "none"]
    /\ ret' = None
    /\ UNCHANGED <<memo_factorial, memo_odd, evals_factorial, evals_odd>>

CallTransform(M) ==
    /\ coords # None
    /\ call' = [fn |-> "transform_coordinates", A |-> coords, M |-> M]
    /\ ret' = Value(transform_coordinates(coords, M))
    /\ UNCHANGED <<memo_factorial, memo_odd, evals_factorial, evals_odd, coords>>

\* ------------------------------------------------------------------ specs
Init ==
    /\ memo_factorial = <<>>
    /\ memo_odd = <<>>
    /\ evals_factorial = [a \in FactorialArgs |-> 0]
    /\ evals_odd = [a \in OddArgs \cup LegendreOddArgs |-> 0]
    /\ call = [fn |-> "none"]
    /\ ret = None
    /\ coords = None

\* the Memoize instances called directly
Next ==
    \/ \E a \in FactorialArgs : CallFactorial(a)
    \/ \E a \in OddArgs : CallOddFactorial(a)

Spec == Init /\ [][Next]_vars

NextLegendre ==
    \/ \E nu \in (-1)..MaxNu, mu \in (-1)..MaxMu, x \in XValues : CallLegendre(nu, mu, x)
    \/ Discard

SpecLegendre == Init /\ [][NextLegendre]_vars

NextGrid ==
    \/ \E v \in VectorSet : AddVector(v)
    \/ \E key \in KwargKeys : \E val \in KwargValues(key) : AddKwarg(key, val)
    \/ CallMeshgrid
    \/ CallNdgrid
    \/ Discard

SpecGrid == Init /\ [][NextGrid]_vars

NextTransform ==
    \/ \E A \in CoordsSet : SetCoords(A)
    \/ \E M \in Matrices : CallTransform(M)

SpecTransform == Init /\ [][NextTransform]_vars

\* ----------------------------------------------------------------- claims
EvalsOf(evals) == {evals[a] : a \in DOMAIN evals}

\* C1: over any sequence of calls, the wrapped function is evaluated at most
\* once per distinct argument tuple, and a call whose tuple is already in the
\* memo returns the stored result without evaluating the function.
C1_AtMostOneEvaluation ==
    [][/\ \A n \in EvalsOf(evals_factorial') \cup EvalsOf(evals_odd') : n <= 1
       /\ (call'.fn = "factorial" /\ call'.args \in DOMAIN memo_factorial)
             => (evals_factorial' = evals_factorial
                 /\ ret' = Value(memo_factorial[call'.args]))
       /\ (call'.fn = "odd_factorial" /\ call'.args \in DOMAIN memo_odd)
             => (evals_odd' = evals_odd /\ ret' = Value(memo_odd[call'.args]))]_vars

\* factorial called a second time with the same argument: one evaluation
C1_Witness ==
    /\ call.fn = "factorial"
    /\ call.cached
    /\ evals_factorial[call.args] = 1

\* C2: every call of a memoized function returns what the wrapped function
\* returns for the same argument tuple, whatever the memo holds, and every
\* memo entry is the wrapped function's value for its key.
C2_SameAsUnwrapped ==
    /\ call.fn = "factorial" => ret = Value(math_factorial[call.args])
    /\ call.fn = "odd_factorial" => ret = Value(odd_factorial_fn[call.args])
    /\ \A a \in DOMAIN memo_factorial : memo_factorial[a] = math_factorial[a]
    /\ \A a \in DOMAIN memo_odd : memo_odd[a] = odd_factorial_fn[a]

\* odd_factorial(5) answered from a memo that holds other entries as well
C2_Witness ==
    /\ call.fn = "odd_factorial"
    /\ call.args = <<5>>
    /\ call.cached
    /\ Cardinality(DOMAIN memo_odd) >= 3
    /\ ret = Value(15)

Extends(old, new) == \A a \in DOMAIN old : a \in DOMAIN new /\ new[a] = old[a]

\* C10: a memo only grows: no entry is removed or overwritten, a call with a
\* tuple already in the memo leaves it unchanged, and a call with a new tuple
\* adds exactly that tuple.
C10_CacheOnlyGrows ==
    [][/\ Extends(memo_factorial, memo_factorial')
       /\ Extends(memo_odd, memo_odd')
       /\ IF call'.fn = "factorial"
          THEN IF call'.args \in DOMAIN memo_factorial
               THEN memo_factorial' = memo_factorial
               ELSE DOMAIN memo_factorial' = DOMAIN memo_factorial \cup {call'.args}
          ELSE memo_factorial' = memo_factorial
       /\ IF call'.fn = "odd_factorial"
          THEN IF call'.args \in DOMAIN memo_odd
               THEN memo_odd' = memo_odd
               ELSE DOMAIN memo_odd' = DOMAIN memo_odd \cup {call'.args}
          ELSE memo_odd' = memo_odd]_vars

\* a new tuple was added to a memo that already held two
C10_Witness ==
    /\ call.fn = "odd_factorial"
    /\ ~call.cached
    /\ Cardinality(DOMAIN memo_odd) = 3
    /\ call.args \in DOMAIN memo_odd

\* the product of the odd integers from k down to 1
RECURSIVE OddProduct(_)
OddProduct(k) == IF k < 1 THEN 1 ELSE k * OddProduct(k - 2)

\* C9: odd_factorial(k) is the product of the odd integers from k down to 1
\* for odd k >= 1, and 1 for k < 1.
C9_OddFactorialProduct ==
    call.fn = "odd_factorial" =>
        LET k == call.args[1] IN
        /\ (k >= 1 /\ k % 2 = 1) => ret = Value(OddProduct(k))
        /\ k < 1 => ret = Value(1)

\* C3: legendre raises the order error when mu < 0 or mu > nu, the argument
\* error when the order is valid and abs(x) > 1, and returns a value for
\* every 0 <= mu <= nu and -1 <= x <= 1.
C3_LegendreErrors ==
    call.fn = "legendre" =>
        IF call.mu < 0 \/ call.mu > call.nu
        THEN ret = Raise("ValueError", "require 0 <= mu <= nu")
        ELSE IF call.x[1] > call.x[2] \/ -call.x[1] > call.x[2]
        THEN ret = Raise("ValueError", "require -1 <= x <= 1")
        ELSE ret.kind = "value"

\* legendre(2, 3, 1.5): the order error wins
C3_Witness ==
    /\ call.fn = "legendre"
    /\ call.nu = 2 /\ call.mu = 3 /\ call.x = <<3, 2>>
    /\ ret.kind = "raise"

\* the ordinary Legendre polynomial by its reference recurrence:
\* P_0 = 1, P_1 = x, n * P_n = (2n - 1) * x * P_(n-1) - (n - 1) * P_(n-2)
RECURSIVE LegendreP(_, _)
LegendreP(n, x) ==
    IF n = 0 THEN RInt(1)
    ELSE IF n = 1 THEN x
    ELSE RDivInt(RSub(RMul(RInt(2 * n - 1), RMul(x, LegendreP(n - 1, x))),
                      RMul(RInt(n - 1), LegendreP(n - 2, x))), n)

TestedDegrees == 0..10
TestedArguments == {<<-1, 1>>, <<-1, 2>>, <<0, 1>>, <<1, 2>>, <<1, 1>>}

\* C4: for nu in 0..10 and x in {-1, -0.5, 0, 0.5, 1}, legendre(nu, 0, x) is
\* the ordinary Legendre polynomial P_nu(x).
C4_OrdinaryLegendre ==
    (call.fn = "legendre" /\ call.mu = 0 /\ call.nu \in TestedDegrees
        /\ call.x \in TestedArguments)
    => ret = Value([q |-> LegendreP(call.nu, call.x), rad |-> 1])

\* legendre(10, 0, 0.5) = -49343/262144
C4_Witness ==
    /\ call.fn = "legendre"
    /\ call.nu = 10 /\ call.mu = 0 /\ call.x = <<1, 2>>
    /\ ret = Value([q |-> <<-49343, 262144>>, rad |-> 1])

\* what a grid call was asked for
Indexing == IF call.fn = "ndgrid" THEN "ij" ELSE Get(call.kwargs, "indexing", "xy")
IsSparse == Get(call.kwargs, "sparse", FALSE)
Lengths(xi) == [i \in DOMAIN xi |-> Len(xi[i])]
Transposed(s) ==
    [d \in DOMAIN s |-> IF d = 1 /\ Len(s) >= 2 THEN s[2]
                        ELSE IF d = 2 THEN s[1] ELSE s[d]]
GridShape(xi, indexing) ==
    IF indexing = "xy" THEN Transposed(Lengths(xi)) ELSE Lengths(xi)
\* the axis along which output array i varies
Axis(i, indexing) ==
    IF indexing = "xy" /\ i = 1 THEN 2 ELSE IF indexing = "xy" /\ i = 2 THEN 1 ELSE i
Returned(r) ==
    IF r.kind = "list" THEN r.arrays ELSE IF r.kind = "array" THEN <<r.array>> ELSE <<>>

C6_SparseBroadcastsToDense ==
    (call.fn \in {"meshgrid", "ndgrid"} /\ IsSparse) =>
        LET kw == ("sparse" :> FALSE) @@ call.kwargs
            dense == IF call.fn = "ndgrid" THEN ndgrid(call.xi, kw)
                     ELSE meshgrid(call.xi, kw)
            grid == GridShape(call.xi, Indexing)
        IN IF ret.kind = "list"
           THEN /\ Len(ret.arrays) = Len(call.xi)
                /\ \A i \in DOMAIN ret.arrays :
                      ret.arrays[i].shape =
                          [d \in DOMAIN call.xi |->
                              IF d = Axis(i, Indexing) THEN Len(call.xi[i]) ELSE 1]
                /\ dense.kind = "list"
                /\ Len(dense.arrays) = Len(call.xi)
                /\ \A i \in DOMAIN ret.arrays :
                      /\ BroadcastTo(ret.arrays[i], grid) = dense.arrays[i]
                      /\ \A idx \in IndexSet(grid) :
                            dense.arrays[i].data[idx] = call.xi[i][idx[Axis(i, Indexing)] + 1]
           ELSE ret = dense

\* a sparse, uncopied, cartesian grid of three non-empty vectors
C6_Witness ==
    /\ call.fn = "meshgrid"
    /\ IsSparse
    /\ Indexing = "xy"
    /\ ~Get(call.kwargs, "copy", TRUE)
    /\ call.xi = <<<<0, 1>>, <<0, 1, 2>>, <<7>>>>
    /\ ret.kind = "list"
    /\ ret.arrays[1].shape = <<1, 2, 1>>

\* C7: a grid call with no coordinate vectors raises the TypeError
\* "meshgrid() take 1 or more arguments (0 given)", whatever the options.
C7_EmptyArguments ==
    (call.fn \in {"meshgrid", "ndgrid"} /\ call.xi = <<>>) =>
        ret = Raise("TypeError", "meshgrid() take 1 or more arguments (0 given)")

\* A.x * M[i,0] + A.y * M[i,1] + A.z * M[i,2] + M[i,3] at every position
Component(A, M, i) ==
    Array(A.x.shape,
          [idx \in IndexSet(A.x.shape) |->
              A.x.data[idx] * M[<<i, 0>>] + A.y.data[idx] * M[<<i, 1>>]
                  + A.z.data[idx] * M[<<i, 2>>] + M[<<i, 3>>]])

SameUpperRows(M, N) == \A ij \in MatrixIndex : ij[1] <= 2 => M[ij] = N[ij]

\* C8: transform_coordinates returns B with B_i = A.x*M[i,0] + A.y*M[i,1] +
\* A.z*M[i,2] + M[i,3] at every position; the result does not depend on the
\* last row of M, A is left as it was, and the identity matrix returns A.
C8_AffineTransform ==
    call.fn = "transform_coordinates" =>
        /\ ret = Value(CoordsVector(Component(call.A, call.M, 0),
                                    Component(call.A, call.M, 1),
                                    Component(call.A, call.M, 2)))
        /\ \A N \in Matrices :
              SameUpperRows(call.M, N) => Value(transform_coordinates(call.A, N)) = ret
        /\ coords = call.A
        /\ call.M = Identity => ret = Value(call.A)

\* a two-point coordinate vector under a matrix whose last row is not 0 0 0 1
C8_Witness ==
    /\ call.fn = "transform_coordinates"
    /\ call.M = Generic
    /\ call.A = CoordsVector(AsArray(<<1, 2>>), AsArray(<<0, -3>>), AsArray(<<0, -3>>))
    /\ ret.val.x = AsArray(<<2, -6>>)
====
